---- MODULE Spec2Model ----
(***************************************************************************)
(* MetricMaster: layers, shapes, the multi-point capture of DrawingManager, *)
(* the deferred naming-and-add of MapCanvas.handleShapeComplete, and the    *)
(* layer / shape operations of App.                                         *)
(*                                                                          *)
(* One action is one browser event handled to completion, the React         *)
(* re-render that follows it included: state updates of one handler are     *)
(* batched, the refs of DrawingManager are refreshed by its effects, and    *)
(* DrawingManager loses its state when the render no longer mounts it.      *)
(***************************************************************************)
EXTENDS Integers, Sequences, FiniteSets, TLC

VARIABLES
  layers,           \* App: Layer[]          (display order = insertion order)
  shapes,           \* App: Shape[]
  activeLayerId,    \* App: string | null
  selectedShapeId,  \* App: string | null
  toolMode,         \* App: ToolMode
  points,           \* DrawingManager: GeoPoint[] accumulated by the capture
  timers,           \* setTimeout callbacks of handleShapeComplete not yet run
  nextId,           \* generateId: the identifiers handed out so far, plus one
  layerTotals,      \* App: the value useMemo holds for layerTotals
  isAnalysisOpen,   \* App: boolean
  isAnalyzing,      \* App: boolean, the loading flag of AnalysisModal
  analysisResult,   \* App: the text AnalysisModal shows
  requests,         \* calls of analyzeMeasurements awaiting their reply
  started,          \* history: the calls of handleRunAnalysis so far
  session,          \* history: the clicks since the capture was last reset
  op                \* history: the event handled last (see Event)

\* The state of the analysis
analysis == <<isAnalysisOpen, isAnalyzing, analysisResult, requests, started>>

vars == <<layers, shapes, activeLayerId, selectedShapeId, toolMode, points,
          timers, nextId, layerTotals, analysis, session, op>>

\* The program's own state (everything but the history variables).
progVars == <<layers, shapes, activeLayerId, selectedShapeId, toolMode, points,
              timers, nextId, layerTotals, isAnalysisOpen, isAnalyzing,
              analysisResult, requests>>

----------------------------------------------------------------------------
(* Bounds of the model *)

\* Identifiers generateId hands out, the initial '1' included: in Spec, in
\* CaptureSpec, in PanelSpec, in ImportSpec, in ParseSpec, in ConvertSpec and
\* in AnalysisSpec
MaxIds == 4
MaxCaptureIds == 3
MaxPanelIds == 3
MaxImportIds == 5
MaxParseIds == 4
MaxConvertIds == 6
MaxAnalysisIds == 4
\* Calls of handleRunAnalysis
MaxRequests == 2
\* Tuples in a <coordinates> text of ParseSpec
MaxTuples == 3
\* Deferred adds pending at once
MaxTimers == 1

----------------------------------------------------------------------------
(* Values *)

NULL == 0

SELECT == "SELECT"
DRAW_POLYGON == "DRAW_POLYGON"
DRAW_LINE == "DRAW_LINE"

GeoPoint(la, ln) == [lat |-> la, lng |-> ln]

\* The outline the user traces, vertex after vertex: the clicks of a capture
\* follow it from its first vertex on.
Trace == <<GeoPoint(0, 0), GeoPoint(0, 2), GeoPoint(1, 2)>>

ClickPoints == {Trace[i] : i \in 1..Len(Trace)}

IsPrefix(s, t) == Len(s) <= Len(t) /\ \A i \in 1..Len(s) : s[i] = t[i]

\* PRESET_COLORS[0], the colour picker's initial value.
DefaultColor == "#ef4444"
LayerNames == {"Sol"}

InitialLayer ==
  [id |-> 1, name |-> "Murs", color |-> "#ef4444", type |-> "surface",
   category |-> "measurement", isVisible |-> TRUE, opacity |-> 5]

----------------------------------------------------------------------------
(* Array helpers (Array.prototype.filter is SelectSeq) *)

\* layers.find(l => l.id === id) !== undefined
HasLayer(ls, id) == \E i \in 1..Len(ls) : ls[i].id = id

\* layers.find(l => l.id === id), where it is defined
FindLayer(ls, id) ==
  ls[CHOOSE i \in 1..Len(ls) :
       ls[i].id = id /\ \A j \in 1..(i - 1) : ls[j].id # id]

HasShape(ss, id) == \E i \in 1..Len(ss) : ss[i].id = id

FindShape(ss, id) ==
  ss[CHOOSE i \in 1..Len(ss) :
       ss[i].id = id /\ \A j \in 1..(i - 1) : ss[j].id # id]

LayerIds(ls) == {ls[i].id : i \in 1..Len(ls)}
ShapeIds(ss) == {ss[i].id : i \in 1..Len(ss)}
ShapesOf(ss, lid) == SelectSeq(ss, LAMBDA s : s.layerId = lid)

\* The numbers of JavaScript that are no finite number
NaN == 999
Infinity == 998

isNaN(x) == x = NaN

\* a + b and a * b, where b is finite: NaN yields NaN
Plus(a, b) == IF isNaN(a) \/ isNaN(b) THEN NaN ELSE a + b
Times(a, b) == IF isNaN(a) THEN NaN ELSE a * b

RECURSIVE SumValues(_)
SumValues(ss) ==
  IF ss = <<>> THEN 0
  ELSE Plus(Head(ss).measuredValue, SumValues(Tail(ss)))

\* layerTotals[id]: defined for measurement layers only
layerTotal(ls, ss, lid) == SumValues(ShapesOf(ss, lid))

\* The function the useMemo of layerTotals computes
ComputedTotals(ls, ss) ==
  [lid \in {ls[i].id : i \in {j \in 1..Len(ls) :
                                 ls[j].category = "measurement"}} |->
     layerTotal(ls, ss, lid)]

----------------------------------------------------------------------------
(* Geometry: what the calls into the turf library yield, on grid points *)

Abs(x) == IF x < 0 THEN -x ELSE x

RECURSIVE Shoelace(_)
Shoelace(ring) ==
  IF Len(ring) < 2 THEN 0
  ELSE ring[1].lng * ring[2].lat - ring[2].lng * ring[1].lat
       + Shoelace(Tail(ring))

\* turf.polygon([ring]) throws unless the ring has 4 positions and is closed
PolygonThrows(ring) == Len(ring) < 4 \/ ring[1] # ring[Len(ring)]

\* A position with a coordinate that is no finite number
NonFinite(line) ==
  \E i \in 1..Len(line) :
    line[i].lat \in {NaN, Infinity} \/ line[i].lng \in {NaN, Infinity}

\* turf.area: the unsigned area enclosed by the ring; the sines and the
\* differences of the library yield NaN once a coordinate is not finite
turfArea(ring) == IF NonFinite(ring) THEN NaN ELSE Abs(Shoelace(ring))

\* turf.lineString(coords) throws on fewer than 2 positions
LineThrows(line) == Len(line) < 2

RECURSIVE PathLength(_)
PathLength(line) ==
  IF Len(line) < 2 THEN 0
  ELSE Abs(line[2].lat - line[1].lat) + Abs(line[2].lng - line[1].lng)
       + PathLength(Tail(line))

\* turf.length: the length of the path; the distance of the library is NaN
\* once a coordinate is not finite
turfLength(line) == IF NonFinite(line) THEN NaN ELSE PathLength(line)

\* handleShapeComplete's try block; a throw leaves measuredValue at 0, and
\* so does a NaN
CaptureMeasure(layerType, pts) ==
  LET measuredValue ==
        IF layerType = "surface"
        THEN LET ring == Append(pts, pts[1])
             IN IF PolygonThrows(ring) THEN 0 ELSE turfArea(ring)
        ELSE IF LineThrows(pts) THEN 0 ELSE Times(turfLength(pts), 1000)
  IN IF isNaN(measuredValue) THEN 0 ELSE measuredValue

----------------------------------------------------------------------------
(* Rendering *)

\* MapCanvas renders DrawingManager only under this condition
DrawingMounted(tm, ls, aid) == tm # SELECT /\ HasLayer(ls, aid)

\* The DrawingManager state after the re-render: np while it stays mounted,
\* the initial useState([]) once it was unmounted.
\* A faulty dependency list, which leaves the shapes out
LayersChanged == layers' # layers

\* The dependency list [layers, shapes] of the useMemo of layerTotals: every
\* update of either state builds a new array
DepsChanged == layers' # layers \/ shapes' # shapes

Render(np, ns) ==
  LET m == DrawingMounted(toolMode', layers', activeLayerId')
  IN /\ points' = IF m THEN np ELSE <<>>
     /\ session' = IF m THEN ns ELSE <<>>
     /\ layerTotals' = IF DepsChanged
                       THEN ComputedTotals(layers', shapes')
                       ELSE layerTotals

\* An event: its name; arg, the identifier it concerns (the vertex clicked,
\* the number of points an Escape discards); ok, whether it took effect
Event(name, arg, ok) ==
  [name |-> name, arg |-> arg, ok |-> ok, input |-> <<>>]

\* An event with the values the user handed over
EventOf(name, arg, ok, input) ==
  [name |-> name, arg |-> arg, ok |-> ok, input |-> input]

ModeFor(type) == IF type = "surface" THEN DRAW_POLYGON ELSE DRAW_LINE

----------------------------------------------------------------------------
(* generateId *)

\* crypto.randomUUID() yields an identifier never handed out before.
\* Identifiers are only ever compared for equality, so the n-th one a handler
\* generates is the n-th number not handed out yet. An identifier that ends
\* in no state (a failed import's) is not counted.
generateId(n) == nextId + n - 1

----------------------------------------------------------------------------
(* State after construction *)

Init ==
  /\ layers = <<InitialLayer>>
  /\ shapes = <<>>
  /\ activeLayerId = 1
  /\ selectedShapeId = NULL
  /\ toolMode = SELECT
  /\ points = <<>>
  /\ timers = <<>>
  /\ nextId = 2
  /\ layerTotals = ComputedTotals(<<InitialLayer>>, <<>>)
  /\ isAnalysisOpen = FALSE
  /\ isAnalyzing = FALSE
  /\ analysisResult = ""
  /\ requests = {}
  /\ started = 0
  /\ session = <<>>
  /\ op = Event("init", NULL, TRUE)

----------------------------------------------------------------------------
(* App: layer operations *)

\* A faulty default, which makes every new layer half transparent
HalfOpacity(type) == 5

\* opacity: type === 'surface' ? 0.5 : 1.0, in tenths
DefaultOpacity(type) == IF type = "surface" THEN 5 ELSE 10

handleAddLayer(name, type, color) ==
  /\ LET newLayer == [id |-> generateId(1), name |-> name, color |-> color,
                      type |-> type, category |-> "measurement",
                      isVisible |-> TRUE,
                      opacity |-> DefaultOpacity(type)]
     IN /\ layers' = Append(layers, newLayer)
        /\ activeLayerId' = newLayer.id
  /\ toolMode' = ModeFor(type)
  /\ selectedShapeId' = NULL
  /\ nextId' = nextId + 1
  /\ UNCHANGED <<shapes, timers>>
  /\ UNCHANGED analysis
  /\ Render(points, session)
  /\ op' = EventOf("addLayer", generateId(1), TRUE, <<name, type, color>>)

\* A faulty filter, which keeps the layers created before layer id
LayersBefore(ls, id) == SelectSeq(ls, LAMBDA l : l.id < id)

\* setLayers(prev => prev.filter(l => l.id !== id))
WithoutLayer(ls, id) == SelectSeq(ls, LAMBDA l : l.id # id)

\* A faulty cascade, which drops every shape
WithoutAllShapes(ss, id) == <<>>

\* setShapes(prev => prev.filter(s => s.layerId !== id))
WithoutShapesOf(ss, id) == SelectSeq(ss, LAMBDA s : s.layerId # id)

\* A faulty reset, which clears the active layer whatever was deleted
ActiveCleared(aid, id) == NULL

\* if (activeLayerId === id) setActiveLayerId(null)
\* A faulty reset, which keeps the active layer whatever is deleted
ActiveKept(aid, id) == aid

ActiveAfterDelete(aid, id) == IF aid = id THEN NULL ELSE aid

\* window.confirm is the user's answer ok; a refusal changes nothing
handleDeleteLayer(id, ok) ==
  /\ IF ok
     THEN /\ layers' = WithoutLayer(layers, id)
          /\ shapes' = WithoutShapesOf(shapes, id)
          /\ activeLayerId' = ActiveAfterDelete(activeLayerId, id)
     ELSE UNCHANGED <<layers, shapes, activeLayerId>>
  /\ UNCHANGED <<selectedShapeId, toolMode, timers, nextId>>
  /\ UNCHANGED analysis
  /\ Render(points, session)
  /\ op' = Event("deleteLayer", id, ok)

\* A faulty update, which flips every layer
ToggledAll(ls, id) ==
  [i \in 1..Len(ls) |-> [ls[i] EXCEPT !.isVisible = ~ls[i].isVisible]]

\* prev.map(l => l.id === id ? { ...l, isVisible: !l.isVisible } : l)
Toggled(ls, id) ==
  [i \in 1..Len(ls) |->
     IF ls[i].id = id THEN [ls[i] EXCEPT !.isVisible = ~ls[i].isVisible]
     ELSE ls[i]]

handleToggleVisibility(id) ==
  /\ layers' = Toggled(layers, id)
  /\ UNCHANGED <<shapes, activeLayerId, selectedShapeId, toolMode, timers, nextId>>
  /\ UNCHANGED analysis
  /\ Render(points, session)
  /\ op' = Event("toggleVisibility", id, TRUE)

\* The slider of renderLayerItem hands over a value of its range, in tenths
SliderValues == {0, 10}

\* The numbers a caller of handleUpdateOpacity can hand over, in tenths
Opacities == SliderValues \cup {15}

handleUpdateOpacity(id, opacity) ==
  /\ layers' = [i \in 1..Len(layers) |->
                  IF layers[i].id = id
                  THEN [layers[i] EXCEPT !.opacity = opacity]
                  ELSE layers[i]]
  /\ UNCHANGED <<shapes, activeLayerId, selectedShapeId, toolMode, timers, nextId>>
  /\ UNCHANGED analysis
  /\ Render(points, session)
  /\ op' = EventOf("updateOpacity", id, TRUE, <<opacity>>)

\* A faulty wiring, which lets the click through for every layer
CanActivateAny(layer) == TRUE

\* renderLayerItem: onClick={() => !isKml && onSetActiveLayer(layer.id)}
CanActivate(layer) == layer.category # "kml"

handleSetActiveLayer(id) ==
  /\ activeLayerId' = id
  /\ IF HasLayer(layers, id)
     THEN /\ toolMode' = ModeFor(FindLayer(layers, id).type)
          /\ selectedShapeId' = NULL
     ELSE UNCHANGED <<toolMode, selectedShapeId>>
  /\ UNCHANGED <<layers, shapes, timers, nextId>>
  /\ UNCHANGED analysis
  /\ Render(points, session)
  /\ op' = EventOf("setActiveLayer", id, TRUE, <<selectedShapeId>>)

----------------------------------------------------------------------------
(* App: the tool buttons of the header *)

ToolSelect ==
  /\ toolMode' = SELECT
  /\ UNCHANGED <<layers, shapes, activeLayerId, selectedShapeId, timers, nextId>>
  /\ UNCHANGED analysis
  /\ Render(points, session)
  /\ op' = Event("toolSelect", NULL, TRUE)

\* disabled={!activeLayerId || category === 'kml' || type === <the other type>}
ToolEnabled(otherType) ==
  /\ activeLayerId # NULL
  /\ ~(HasLayer(layers, activeLayerId)
       /\ FindLayer(layers, activeLayerId).category = "kml")
  /\ ~(HasLayer(layers, activeLayerId)
       /\ FindLayer(layers, activeLayerId).type = otherType)

ToolPolygon ==
  /\ ToolEnabled("length")
  /\ toolMode' = DRAW_POLYGON
  /\ selectedShapeId' = NULL
  /\ UNCHANGED <<layers, shapes, activeLayerId, timers, nextId>>
  /\ UNCHANGED analysis
  /\ Render(points, session)
  /\ op' = Event("toolPolygon", NULL, TRUE)

ToolLine ==
  /\ ToolEnabled("surface")
  /\ toolMode' = DRAW_LINE
  /\ selectedShapeId' = NULL
  /\ UNCHANGED <<layers, shapes, activeLayerId, timers, nextId>>
  /\ UNCHANGED analysis
  /\ Render(points, session)
  /\ op' = Event("toolLine", NULL, TRUE)

----------------------------------------------------------------------------
(* DrawingManager: the capture *)

Mounted == DrawingMounted(toolMode, layers, activeLayerId)

\* A faulty append, which puts the new point first
AddPointFirst(pts, p) == <<p>> \o pts

\* useMapEvents click: setPoints(prev => [...prev, point])
AddPoint(pts, p) == Append(pts, p)

MapClick(p) ==
  /\ Mounted
  /\ toolMode # SELECT
  /\ IsPrefix(Append(session, p), Trace)
  /\ UNCHANGED <<layers, shapes, activeLayerId, selectedShapeId, toolMode,
                 timers, nextId>>
  /\ UNCHANGED analysis
  /\ Render(AddPoint(points, p), Append(session, p))
  /\ op' = Event("click", NULL, TRUE)

\* A faulty guard, which lets a polygon of two points through
CanFinishLoose(mode, pts) ==
  \/ mode = DRAW_POLYGON /\ Len(pts) >= 2
  \/ mode = DRAW_LINE /\ Len(pts) >= 2

\* The two guards of handleTryFinish
CanFinish(mode, pts) ==
  \/ mode = DRAW_POLYGON /\ Len(pts) >= 3
  \/ mode = DRAW_LINE /\ Len(pts) >= 2

\* MapCanvas.handleShapeComplete up to its setTimeout: what the deferred
\* callback closes over (activeLayer, points, measuredValue, shapes)
Deferred(activeLayer, pts, ss) ==
  [layerId |-> activeLayer.id,
   layerType |-> activeLayer.type,
   points |-> pts,
   measuredValue |-> CaptureMeasure(activeLayer.type, pts),
   count |-> Len(ShapesOf(ss, activeLayer.id))]

\* onFinishRef.current(currentPoints); setPoints([])
handleTryFinish ==
  /\ IF CanFinish(toolMode, points)
     THEN /\ timers' = IF HasLayer(layers, activeLayerId)
                       THEN Append(timers,
                                   Deferred(FindLayer(layers, activeLayerId),
                                            points, shapes))
                       ELSE timers
          /\ UNCHANGED <<layers, shapes, activeLayerId, selectedShapeId,
                         toolMode, nextId>>
          /\ UNCHANGED analysis
          /\ Render(<<>>, <<>>)
     ELSE /\ UNCHANGED <<layers, shapes, activeLayerId, selectedShapeId,
                         toolMode, timers, nextId>>
          /\ UNCHANGED analysis
          /\ Render(points, session)

\* Enter, right click on the map or on a vertex, the Terminer button
TryFinish ==
  /\ Mounted
  /\ toolMode # SELECT
  /\ handleTryFinish
  /\ op' = Event("tryFinish", NULL, CanFinish(toolMode, points))

\* A faulty Escape, which keeps all but the last point
EscapeLast ==
  /\ Mounted
  /\ toolMode # SELECT
  /\ selectedShapeId' = NULL
  /\ UNCHANGED <<layers, shapes, activeLayerId, toolMode, timers, nextId>>
  /\ UNCHANGED analysis
  /\ Render(SubSeq(points, 1, Len(points) - 1),
            SubSeq(session, 1, Len(session) - 1))
  /\ op' = Event("escape", Len(points), TRUE)

\* Escape: setPoints([]); onCancel() is onSelectShape(null)
Escape ==
  /\ Mounted
  /\ toolMode # SELECT
  /\ selectedShapeId' = NULL
  /\ UNCHANGED <<layers, shapes, activeLayerId, toolMode, timers, nextId>>
  /\ UNCHANGED analysis
  /\ Render(<<>>, <<>>)
  /\ op' = Event("escape", Len(points), TRUE)

\* A faulty test, which closes the loop on any vertex
ClosesLoopAnyVertex(i, mode, pts) == mode = DRAW_POLYGON /\ Len(pts) >= 3

\* The click handler of the i-th vertex marker (0-based in the source)
ClosesLoop(i, mode, pts) == i = 1 /\ mode = DRAW_POLYGON /\ Len(pts) >= 3

MarkerClick(i) ==
  /\ Mounted
  /\ i \in 1..Len(points)
  /\ IF ClosesLoop(i, toolMode, points)
     THEN handleTryFinish
     ELSE /\ UNCHANGED <<layers, shapes, activeLayerId, selectedShapeId,
                         toolMode, timers, nextId>>
          /\ UNCHANGED analysis
          /\ Render(points, session)
  /\ op' = Event("markerClick", i, ClosesLoop(i, toolMode, points))

----------------------------------------------------------------------------
(* MapCanvas.handleShapeComplete: the deferred naming and add *)

PromptCancel == "<cancel>"
PromptReplies == {PromptCancel, ""}

DefaultName(layerType) == IF layerType = "surface" THEN "Surface" ELSE "Longueur"

\* window.prompt's answer: null, the empty string, or the suggested default
ShapeName(t, reply) ==
  IF reply = "" THEN DefaultName(t.layerType)
  ELSE DefaultName(t.layerType) \o " " \o ToString(t.count + 1)

\* A faulty add, which makes a polygon on every layer
NewCapturedPolygon(t, id, reply) ==
  [id |-> id,
   name |-> ShapeName(t, reply),
   type |-> "polygon",
   points |-> t.points,
   layerId |-> t.layerId,
   measuredValue |-> t.measuredValue]

NewCapturedShape(t, id, reply) ==
  [id |-> id,
   name |-> ShapeName(t, reply),
   type |-> IF t.layerType = "surface" THEN "polygon" ELSE "polyline",
   points |-> t.points,
   layerId |-> t.layerId,
   measuredValue |-> t.measuredValue]

\* App.handleAddShape
handleAddShape(ss, shape) == Append(ss, shape)

TimerFire(reply) ==
  /\ timers # <<>>
  /\ timers' = Tail(timers)
  /\ IF reply # PromptCancel
     THEN /\ shapes' = handleAddShape(shapes,
                                      NewCapturedShape(Head(timers),
                                                       generateId(1), reply))
          /\ nextId' = nextId + 1
     ELSE UNCHANGED <<shapes, nextId>>
  /\ UNCHANGED <<layers, activeLayerId, selectedShapeId, toolMode>>
  /\ UNCHANGED analysis
  /\ Render(points, session)
  /\ op' = Event("timer", IF reply # PromptCancel THEN generateId(1) ELSE NULL,
                 reply # PromptCancel)

----------------------------------------------------------------------------
(* App: selection and shape deletion *)

\* MapCanvas draws the shapes of the visible layers; a click selects one
\* only while the tool is SELECT
Rendered(ls, s) ==
  \E i \in 1..Len(ls) : ls[i].isVisible /\ ls[i].id = s.layerId

\* A faulty click handler, which selects in every tool mode
CanSelectAlways(tm) == TRUE

\* The click handler of a shape: if (toolMode === ToolMode.SELECT)
CanSelect(tm) == tm = SELECT

SelectShape(id) ==
  /\ CanSelect(toolMode)
  /\ HasShape(shapes, id)
  /\ Rendered(layers, FindShape(shapes, id))
  /\ selectedShapeId' = id
  /\ UNCHANGED <<layers, shapes, activeLayerId, toolMode, timers, nextId>>
  /\ UNCHANGED analysis
  /\ Render(points, session)
  /\ op' = Event("selectShape", id, TRUE)

\* The X of the selection toolbar
Deselect ==
  /\ selectedShapeId # NULL
  /\ HasShape(shapes, selectedShapeId)
  /\ selectedShapeId' = NULL
  /\ UNCHANGED <<layers, shapes, activeLayerId, toolMode, timers, nextId>>
  /\ UNCHANGED analysis
  /\ Render(points, session)
  /\ op' = Event("deselect", NULL, TRUE)

\* isKmlSelection of MapCanvas
IsKmlShape(ls, s) ==
  HasLayer(ls, s.layerId) /\ FindLayer(ls, s.layerId).category = "kml"

\* Where the user can ask for the deletion of shape id: the Delete key (the
\* selected shape), the toolbar (a selected shape that is no KML one), the
\* shape list of a measurement layer in LayerManager
CanAskDelete(id) ==
  \/ id # NULL /\ id = selectedShapeId
  \/ /\ HasShape(shapes, id)
     /\ HasLayer(layers, FindShape(shapes, id).layerId)
     /\ ~IsKmlShape(layers, FindShape(shapes, id))

\* setShapes(prev => prev.filter(s => s.id !== id))
WithoutShape(ss, id) == SelectSeq(ss, LAMBDA s : s.id # id)

\* A faulty reset, which clears the selection whatever was deleted
SelectionCleared(sel, id) == NULL

\* if (selectedShapeId === id) setSelectedShapeId(null)
SelectedAfterDelete(sel, id) == IF sel = id THEN NULL ELSE sel

handleDeleteShape(id, ok) ==
  /\ CanAskDelete(id)
  /\ IF ok
     THEN /\ shapes' = WithoutShape(shapes, id)
          /\ selectedShapeId' = SelectedAfterDelete(selectedShapeId, id)
     ELSE UNCHANGED <<shapes, selectedShapeId>>
  /\ UNCHANGED <<layers, activeLayerId, toolMode, timers, nextId>>
  /\ UNCHANGED analysis
  /\ Render(points, session)
  /\ op' = Event("deleteShape", id, ok)

----------------------------------------------------------------------------
(* App.handleConvertShape *)

\* A faulty coercion, which keeps the type of the shape
KeptType(shapeType, layerType) == shapeType

\* Force type based on target layer
CoercedType(shapeType, layerType) ==
  IF layerType = "length" THEN "polyline"
  ELSE IF layerType = "surface" THEN "polygon"
  ELSE shapeType

\* A faulty measure, which counts the points
ConvertMeasureCount(newType, pts) == Len(pts)

\* The try block; a throw leaves measuredValue at 0, a NaN stays
ConvertMeasure(newType, pts) ==
  IF newType = "polygon"
  THEN LET ring == IF Len(pts) > 0 THEN Append(pts, pts[1]) ELSE <<>>
       IN IF Len(ring) >= 4
          THEN (IF PolygonThrows(ring) THEN 0 ELSE turfArea(ring))
          ELSE 0
  ELSE IF Len(pts) >= 2
       THEN (IF LineThrows(pts) THEN 0 ELSE Times(turfLength(pts), 1000))
       ELSE 0

\* A faulty copy, which stores the ring with its closing point
ConvertedClosed(shape, targetLayer, id) ==
  [shape EXCEPT
     !.id = id,
     !.layerId = targetLayer.id,
     !.type = CoercedType(shape.type, targetLayer.type),
     !.points = Append(shape.points, shape.points[1])]

ConvertedShape(shape, targetLayer, id) ==
  LET newType == CoercedType(shape.type, targetLayer.type)
  IN [shape EXCEPT
        !.id = id,
        !.layerId = targetLayer.id,
        !.type = newType,
        !.measuredValue = ConvertMeasure(newType, shape.points),
        !.name = IF shape.name = "Sans nom"
                 THEN "Import " \o targetLayer.name
                 ELSE shape.name]

\* The toolbar offers "Ajouter au Metre" for a selected shape of a KML layer
CanAskConvert(shapeId) ==
  /\ shapeId # NULL
  /\ HasShape(shapes, shapeId)
  /\ IsKmlShape(layers, FindShape(shapes, shapeId))

\* A faulty precondition, which takes any layer for target
CanConvertOntoAny(shapeId) ==
  HasShape(shapes, shapeId) /\ HasLayer(layers, activeLayerId)

\* The shape and the target layer are found: the handler gets to
\* window.confirm
CanConvert(shapeId) ==
  /\ HasShape(shapes, shapeId)
  /\ HasLayer(layers, activeLayerId)
  /\ FindLayer(layers, activeLayerId).category = "measurement"

\* window.confirm is the user's answer ok
handleConvertShape(shapeId, ok) ==
  /\ IF CanConvert(shapeId) /\ ok
     THEN /\ shapes' = Append(WithoutShape(shapes, shapeId),
                              ConvertedShape(FindShape(shapes, shapeId),
                                             FindLayer(layers, activeLayerId),
                                             generateId(1)))
          /\ selectedShapeId' = generateId(1)
          /\ nextId' = nextId + 1
     ELSE UNCHANGED <<shapes, selectedShapeId, nextId>>
  /\ UNCHANGED <<layers, activeLayerId, toolMode, timers>>
  /\ UNCHANGED analysis
  /\ Render(points, session)
  /\ op' = EventOf("convertShape", shapeId, ok, <<CanConvert(shapeId) /\ ok>>)

----------------------------------------------------------------------------
(* App.handleKmlImport: colours *)

PRESET_COLORS ==
  <<"#ef4444", "#3b82f6", "#22c55e", "#eab308",
    "#a855f7", "#ec4899", "#f97316", "#06b6d4">>

\* A faulty default, the first preset colour
FirstPreset == PRESET_COLORS[1]

Gray == "#9ca3af"

\* A colour text of the document is a sequence of its characters.
IsSpace(c) == c = " "

RECURSIVE TrimLeft(_)
TrimLeft(cs) ==
  IF cs # <<>> /\ IsSpace(Head(cs)) THEN TrimLeft(Tail(cs)) ELSE cs

RECURSIVE TrimRight(_)
TrimRight(cs) ==
  IF cs # <<>> /\ IsSpace(cs[Len(cs)])
  THEN TrimRight(SubSeq(cs, 1, Len(cs) - 1))
  ELSE cs

\* String.prototype.trim
Trim(cs) == TrimRight(TrimLeft(cs))

LowerChar(c) ==
  CASE c = "A" -> "a" [] c = "B" -> "b" [] c = "C" -> "c"
    [] c = "D" -> "d" [] c = "E" -> "e" [] c = "F" -> "f"
    [] c = "G" -> "g" [] c = "Z" -> "z"
    [] OTHER -> c

\* String.prototype.toLowerCase
ToLowerCase(cs) == [i \in 1..Len(cs) |-> LowerChar(cs[i])]

\* substring(from, to) of the source, 0-based and end-exclusive, as a string
RECURSIVE Join(_)
Join(cs) == IF cs = <<>> THEN "" ELSE Head(cs) \o Join(Tail(cs))

Substring(cs, from, to) == Join(SubSeq(cs, from + 1, to))

kmlColorToHex(kmlColor) ==
  IF kmlColor = <<>> THEN Gray
  ELSE LET clean == ToLowerCase(Trim(kmlColor))
       IN IF Len(clean) = 8
          THEN "#" \o Substring(clean, 6, 8) \o Substring(clean, 4, 6)
                   \o Substring(clean, 2, 4)
          ELSE IF Len(clean) = 6
          THEN "#" \o Substring(clean, 4, 6) \o Substring(clean, 2, 4)
                   \o Substring(clean, 0, 2)
          ELSE Gray

\* The colour a <Style> element registers, "" when it registers none
StyleColor(style) ==
  IF style.id = "" THEN ""
  ELSE IF style.polyColor # <<>> THEN kmlColorToHex(style.polyColor)
  ELSE IF style.lineColor # <<>> THEN kmlColorToHex(style.lineColor)
  ELSE ""

\* styleMap[styleUrl] after the forEach over the <Style> elements: the last
\* assignment to the key wins; "" when the key was never assigned
RECURSIVE StyleMapAt(_, _)
StyleMapAt(styles, styleUrl) ==
  IF styles = <<>> THEN ""
  ELSE LET last == styles[Len(styles)]
       IN IF "#" \o last.id = styleUrl /\ StyleColor(last) # ""
          THEN StyleColor(last)
          ELSE StyleMapAt(SubSeq(styles, 1, Len(styles) - 1), styleUrl)

----------------------------------------------------------------------------
(* App.handleKmlImport: coordinates *)

\* Numbers that are no grid coordinate
\* parseFloat on the texts the documents of the model contain
parseFloat(text) ==
  CASE text = "0" -> 0
    [] text = "1" -> 1
    [] text = "2" -> 2
    [] text = "1abc" -> 1
    [] text = "1e999" -> Infinity
    [] OTHER -> NaN

\* A coordinates text is the sequence of its whitespace-separated tuples,
\* a tuple the sequence of its comma-separated parts.
ParsePair(parts) ==
  IF Len(parts) >= 2
  THEN <<[lat |-> parseFloat(parts[2]), lng |-> parseFloat(parts[1])]>>
  ELSE <<>>

RECURSIVE parseCoords(_)
parseCoords(coordStr) ==
  IF coordStr = <<>> THEN <<>>
  ELSE LET p == ParsePair(Head(coordStr))
       IN (IF p # <<>> /\ ~isNaN(p[1].lat) /\ ~isNaN(p[1].lng) THEN p ELSE <<>>)
          \o parseCoords(Tail(coordStr))

----------------------------------------------------------------------------
(* App.handleKmlImport: the document *)

(* A parsed document: its <Style> elements and, in document order, its     *)
(* <Folder> and <Placemark> elements, each with the index of the element   *)
(* enclosing it (0 for the document itself). name is NoName without a      *)
(* <name> child; styleUrl is "" without a <styleUrl>; geom is the first of *)
(* Polygon, LineString the placemark holds, coords its <coordinates>.      *)
NoName == "<no name>"

Style(id, poly, line) == [id |-> id, polyColor |-> poly, lineColor |-> line]

Folder(parent, name) ==
  [tag |-> "Folder", parent |-> parent, name |-> name, styleUrl |-> "",
   geom |-> "", coords |-> <<>>]

Placemark(parent, name, styleUrl, geom, coords) ==
  [tag |-> "Placemark", parent |-> parent, name |-> name,
   styleUrl |-> styleUrl, geom |-> geom, coords |-> coords]

RECURSIVE Inside(_, _, _)
Inside(nodes, i, f) ==
  /\ nodes[i].parent # 0
  /\ (nodes[i].parent = f \/ Inside(nodes, nodes[i].parent, f))

RECURSIVE Ascending(_)
Ascending(S) ==
  IF S = {} THEN <<>>
  ELSE LET m == CHOOSE x \in S : \A y \in S : x <= y
       IN <<m>> \o Ascending(S \ {m})

\* element.getElementsByTagName(tag): the descendants, in document order
\* (f = 0: xmlDoc.getElementsByTagName(tag))
ElementsByTagName(nodes, f, tag) ==
  Ascending({i \in 1..Len(nodes) :
               nodes[i].tag = tag /\ (f = 0 \/ Inside(nodes, i, f))})

\* element.getElementsByTagName("name")[0]?.textContent || fallback
NameOr(nodes, e, fallback) ==
  LET named == {i \in 1..Len(nodes) :
                  (i = e \/ Inside(nodes, i, e)) /\ nodes[i].name # NoName}
  IN IF named = {} THEN fallback
     ELSE LET first == CHOOSE i \in named : \A j \in named : i <= j
          IN IF nodes[first].name = "" THEN fallback ELSE nodes[first].name

\* A faulty initial value, which measures the line through the points
ImportedLength(pts) == turfLength(pts) * 1000

\* measuredValue: 0 of the shape processPlacemark returns
ImportedValue(pts) == 0

\* processPlacemark: <<shape>>, or <<>> for null
processPlacemark(nodes, pm, layerId, id) ==
  LET pts == IF nodes[pm].geom \in {"Polygon", "LineString"}
             THEN parseCoords(nodes[pm].coords)
             ELSE <<>>
  IN IF Len(pts) > 0
     THEN <<[id |-> id,
             name |-> NameOr(nodes, pm, "Sans nom"),
             type |-> IF nodes[pm].geom = "LineString"
                      THEN "polyline" ELSE "polygon",
             points |-> pts,
             layerId |-> layerId,
             measuredValue |-> ImportedValue(pts)]>>
     ELSE <<>>

(* The parse depends on the document alone, but for the identifiers it     *)
(* generates: the n-th identifier the handler generates stands as n in the *)
(* parse, and Issued puts generateId(n) in its place.                      *)

\* Array.from(placemarks).forEach(pm => ...): the shapes pushed, the first
\* of them with the n-th identifier the handler generates
RECURSIVE PlacemarkShapes(_, _, _, _)
PlacemarkShapes(nodes, pms, layerId, n) ==
  IF pms = <<>> THEN <<>>
  ELSE LET sh == processPlacemark(nodes, Head(pms), layerId, n)
       IN sh \o PlacemarkShapes(nodes, Tail(pms), layerId, n + Len(sh))

\* A faulty import, whose layers are of the surface kind
ImportedSurfaceLayer(id, name, color) ==
  [id |-> id, name |-> name, color |-> color, type |-> "surface",
   category |-> "kml", isVisible |-> TRUE, opacity |-> 6]

ImportedLayer(id, name, color) ==
  [id |-> id, name |-> name, color |-> color, type |-> "mixed",
   category |-> "kml", isVisible |-> TRUE, opacity |-> 6]

FolderColor(doc, placemarks, index) ==
  LET preset == PRESET_COLORS[(index % Len(PRESET_COLORS)) + 1]
  IN IF placemarks = <<>> THEN preset
     ELSE LET styleUrl == doc.nodes[Head(placemarks)].styleUrl
          IN IF styleUrl # "" /\ StyleMapAt(doc.styles, styleUrl) # ""
             THEN StyleMapAt(doc.styles, styleUrl)
             ELSE preset

\* Array.from(folders).forEach((folder, index) => ...), from the index-th
\* folder on (0-based), n - 1 identifiers having been generated before: the
\* layers and shapes pushed
RECURSIVE FolderLayers(_, _, _, _)
FolderLayers(doc, folders, index, n) ==
  IF index >= Len(folders)
  THEN [layers |-> <<>>, shapes |-> <<>>]
  ELSE LET folder == folders[index + 1]
           placemarks == ElementsByTagName(doc.nodes, folder, "Placemark")
           folderName == NameOr(doc.nodes, folder,
                                "Dossier " \o ToString(index + 1))
           layerColor == FolderColor(doc, placemarks, index)
           layerId == n
           mine == PlacemarkShapes(doc.nodes, placemarks, layerId, n + 1)
           rest == FolderLayers(doc, folders, index + 1, n + 1 + Len(mine))
       IN [layers |-> <<ImportedLayer(layerId, folderName, layerColor)>>
                        \o rest.layers,
           shapes |-> mine \o rest.shapes]

\* newLayers and newShapes of the onload callback
Parsed(doc) ==
  LET folders == ElementsByTagName(doc.nodes, 0, "Folder")
      placemarks == ElementsByTagName(doc.nodes, 0, "Placemark")
  IN IF Len(folders) > 0 THEN FolderLayers(doc, folders, 0, 1)
     ELSE IF Len(placemarks) > 0
     THEN LET layerId == 1
          IN [layers |-> <<ImportedLayer(layerId, "Import " \o doc.file, Gray)>>,
              shapes |-> PlacemarkShapes(doc.nodes, placemarks, layerId, 2)]
     ELSE [layers |-> <<>>, shapes |-> <<>>]

----------------------------------------------------------------------------
(* The documents the user imports *)

\* One folder "Zone" holding the polygon ring "0,0,0 1,0,0 1,1,0", styled
\* with the opaque red aabbggrr = ff0000ff
DocFolder ==
  [file |-> "plan.kml",
   styles |-> <<Style("s1", <<"f", "f", "0", "0", "0", "0", "F", "F">>, <<>>)>>,
   nodes |-> <<Folder(0, "Zone"),
               Placemark(1, "Toit", "#s1", "Polygon",
                         << <<"0", "0", "0">>, <<"1", "0", "0">>,
                            <<"1", "1", "0">> >>)>>]

\* No folder: an unnamed line with a malformed tuple and a one-part tuple,
\* and a point placemark
DocFlat ==
  [file |-> "trace.kml",
   styles |-> <<>>,
   nodes |-> <<Placemark(0, NoName, "", "LineString",
                         << <<"0", "0">>, <<"x", "1">>, <<"1", "1abc", "0">>,
                            <<"2">> >>),
               Placemark(0, "Borne", "", "Point", << <<"1", "1">> >>)>>]

\* Neither folder nor placemark
DocEmpty == [file |-> "vide.kml", styles |-> <<>>, nodes |-> <<>>]

\* A folder whose only placemark has no usable tuple
DocUnusable ==
  [file |-> "bad.kml",
   styles |-> <<>>,
   nodes |-> <<Folder(0, NoName),
               Placemark(1, "Rien", "", "Polygon", << <<"x", "y">> >>)>>]

\* A folder "Lot" inside a folder "Site", the inner one holding one line
DocNested ==
  [file |-> "site.kml",
   styles |-> <<>>,
   nodes |-> <<Folder(0, "Site"),
               Folder(1, "Lot"),
               Placemark(2, "Axe", "", "LineString",
                         << <<"0", "0">>, <<"0", "1">> >>)>>]

Docs == {DocFolder, DocFlat, DocEmpty, DocUnusable, DocNested}

\* No folder: an unnamed polygon of a single tuple
DocShort ==
  [file |-> "court.kml",
   styles |-> <<>>,
   nodes |-> <<Placemark(0, NoName, "", "Polygon", << <<"0", "0">> >>)>>]

\* The documents whose shapes are converted
ConvertDocs == {DocFolder, DocFlat, DocShort}

\* The tuples of a <coordinates> text: lng,lat, lng,lat,alt, a text that is
\* no number, a single part, and a number beyond the range of a double
Tuples ==
  {<<"0", "0">>, <<"0", "1", "0">>, <<"x", "1">>, <<"2">>, <<"1e999", "0">>}

\* The <coordinates> texts of at most MaxTuples tuples
CoordTexts == UNION {[1..n -> Tuples] : n \in 0..MaxTuples}

\* The <color> texts: aabbggrr, rrggbb-long, no hex digits, too short, blank
ColorTexts ==
  {<<"f", "f", "0", "0", "0", "0", "F", "F">>,
   <<"8", "0", "2", "2", "c", "5", "5", "e">>,
   <<"0", "0", "0", "0", "f", "f">>,
   <<"z", "z", "z", "z", "z", "z", "z", "z">>,
   <<"f", "f", "f">>,
   <<" ">>}

\* One folder holding one line, styled by the one <Style> of the document
DocOf(color, coords) ==
  [file |-> "texte.kml",
   styles |-> <<Style("s", color, <<>>)>>,
   nodes |-> <<Folder(0, "Zone"),
               Placemark(1, "Axe", "#s", "LineString", coords)>>]

\* The documents that differ in one text only
TextDocs ==
  {DocOf(<<"f", "f", "0", "0", "0", "0", "F", "F">>, coords) :
     coords \in CoordTexts}
  \cup {DocOf(color, <<<<"0", "0">>, <<"0", "1", "0">>>>) :
          color \in ColorTexts}

----------------------------------------------------------------------------
(* App.handleKmlImport: the onload callback *)

\* The parse of each document of the model
ParsedDocs == [doc \in Docs \cup ConvertDocs \cup TextDocs |-> Parsed(doc)]

\* A faulty issue, which puts every shape under the first layer of the
\* project
IssuedUnderFirst(parsed) ==
  [layers |-> [i \in 1..Len(parsed.layers) |->
                 [parsed.layers[i] EXCEPT !.id = generateId(@)]],
   shapes |-> [i \in 1..Len(parsed.shapes) |->
                 [parsed.shapes[i] EXCEPT !.id = generateId(@),
                                          !.layerId = 1]]]

\* generateId() at the places of the parse that call it
Issued(parsed) ==
  [layers |-> [i \in 1..Len(parsed.layers) |->
                 [parsed.layers[i] EXCEPT !.id = generateId(@)]],
   shapes |-> [i \in 1..Len(parsed.shapes) |->
                 [parsed.shapes[i] EXCEPT !.id = generateId(@),
                                          !.layerId = generateId(@)]]]

\* A faulty commit, which looks at the layers collected
CommittedLayers(parsed) == Len(parsed.layers) > 0

\* The commit of the onload callback: nothing unless a shape was collected
Committed(parsed) == Len(parsed.shapes) > 0

\* The identifiers an import of doc adds to the state
Made(doc) ==
  IF Committed(ParsedDocs[doc])
  THEN Len(ParsedDocs[doc].layers) + Len(ParsedDocs[doc].shapes)
  ELSE 0

handleKmlImport(doc) ==
  LET parsed == Issued(ParsedDocs[doc])
  IN /\ IF Committed(parsed)
        THEN /\ layers' = layers \o parsed.layers
             /\ shapes' = shapes \o parsed.shapes
        ELSE UNCHANGED <<layers, shapes>>
     /\ nextId' = nextId + Made(doc)
     /\ UNCHANGED <<activeLayerId, selectedShapeId, toolMode, timers>>
     /\ UNCHANGED analysis
     /\ Render(points, session)
     /\ op' = EventOf("kmlImport", NULL, Committed(parsed), <<doc.file, doc>>)

----------------------------------------------------------------------------
(* App.handleRunAnalysis and geminiService.analyzeMeasurements *)

\* total.toFixed(2) of a whole number
ToFixed2(total) == ToString(total) \o ".00"

\* A faulty report, which takes every layer of the project
AllLayers(ls) == ls

\* layers.filter(l => l.category === 'measurement')
MeasurementLayers(ls) == SelectSeq(ls, LAMBDA l : l.category = "measurement")

\* shapes.filter(s => the layer of s is a measurement layer)
MeasurementShapes(ls, ss) ==
  SelectSeq(ss, LAMBDA s : /\ HasLayer(ls, s.layerId)
                            /\ FindLayer(ls, s.layerId).category = "measurement")

\* reportData of analyzeMeasurements (unit: 'm2' stands for the source's
\* 'm' with a superscript 2)
ReportData(ls, ss) ==
  [i \in 1..Len(ls) |->
     LET layerShapes == ShapesOf(ss, ls[i].id)
     IN [layerName |-> ls[i].name,
         type |-> IF ls[i].type = "surface" THEN "Surface Area"
                  ELSE "Linear Length",
         totalValue |-> ToFixed2(SumValues(layerShapes)),
         unit |-> IF ls[i].type = "surface" THEN "m2" ELSE "m",
         itemCount |-> Len(layerShapes)]]

\* The snapshot handleRunAnalysis hands to analyzeMeasurements, as the report
\* made of it
Report(ls, ss) == ReportData(MeasurementLayers(ls), MeasurementShapes(ls, ss))

\* The dialog, while open, covers the button of the header
CanAskAnalysis == ~isAnalysisOpen

handleRunAnalysis ==
  /\ isAnalysisOpen' = TRUE
  /\ isAnalyzing' = TRUE
  /\ requests' = requests \cup {[n |-> started + 1,
                                  report |-> Report(layers, shapes)]}
  /\ started' = started + 1
  /\ UNCHANGED <<layers, shapes, activeLayerId, selectedShapeId, toolMode,
                 timers, nextId, analysisResult>>
  /\ Render(points, session)
  /\ op' = Event("runAnalysis", started + 1, TRUE)

\* What generateContent does with a request: it answers with a text, with no
\* text, or it throws
Outcomes == {"text", "empty", "throw"}

\* The string analyzeMeasurements resolves to
AnalysisText(request, outcome) ==
  CASE outcome = "text" -> "Analyse " \o ToString(request.n)
    [] outcome = "empty" -> "Desole, je n'ai pas pu generer l'analyse."
    [] OTHER -> "Une erreur est survenue lors de l'analyse avec Gemini. Verifiez votre cle API."

\* The rest of handleRunAnalysis, after the await
AnalysisReply(request, outcome) ==
  /\ request \in requests
  /\ requests' = requests \ {request}
  /\ analysisResult' = AnalysisText(request, outcome)
  /\ isAnalyzing' = FALSE
  /\ UNCHANGED <<layers, shapes, activeLayerId, selectedShapeId, toolMode,
                 timers, nextId, isAnalysisOpen, started>>
  /\ Render(points, session)
  /\ op' = EventOf("analysisReply", request.n, outcome # "throw", <<outcome>>)

\* onClose of AnalysisModal
CloseAnalysis ==
  /\ isAnalysisOpen
  /\ isAnalysisOpen' = FALSE
  /\ UNCHANGED <<layers, shapes, activeLayerId, selectedShapeId, toolMode,
                 timers, nextId, isAnalyzing, analysisResult, requests,
                 started>>
  /\ Render(points, session)
  /\ op' = Event("closeAnalysis", NULL, TRUE)

----------------------------------------------------------------------------
(* The specification *)

\* The bounds of the model: max identifiers handed out, MaxTimers deferred
\* adds pending
CanIssue(n, max) == generateId(n) <= max
TimerRoom == Len(timers) < MaxTimers

\* The layer panel, the tool buttons, the capture and its deferred add
CaptureNext(max) ==
  \/ /\ CanIssue(1, max)
     /\ \E name \in LayerNames, type \in {"surface", "length"} :
          handleAddLayer(name, type, DefaultColor)
  \/ \E id \in LayerIds(layers), ok \in BOOLEAN : handleDeleteLayer(id, ok)
  \/ \E id \in LayerIds(layers) :
       CanActivate(FindLayer(layers, id)) /\ handleSetActiveLayer(id)
  \/ ToolSelect
  \/ ToolPolygon
  \/ ToolLine
  \/ \E p \in ClickPoints : MapClick(p)
  \/ (CanFinish(toolMode, points) => TimerRoom) /\ TryFinish
  \/ Escape
  \/ \E i \in 1..Len(Trace) :
       (ClosesLoop(i, toolMode, points) => TimerRoom) /\ MarkerClick(i)
  \/ \E reply \in PromptReplies :
       (reply # PromptCancel => CanIssue(1, max)) /\ TimerFire(reply)

\* The capture on its own
CaptureSpec == Init /\ [][CaptureNext(MaxCaptureIds)]_vars

\* The whole program
Next ==
  \/ CaptureNext(MaxIds)
  \/ \E id \in ShapeIds(shapes) : SelectShape(id)
  \/ Deselect
  \/ \E id \in ShapeIds(shapes) \cup {selectedShapeId}, ok \in BOOLEAN :
       handleDeleteShape(id, ok)
  \/ \E ok \in BOOLEAN :
       /\ ok => CanIssue(1, MaxIds)
       /\ CanAskConvert(selectedShapeId)
       /\ handleConvertShape(selectedShapeId, ok)
  \/ \E doc \in Docs : CanIssue(Made(doc), MaxIds) /\ handleKmlImport(doc)

Spec == Init /\ [][Next]_vars

\* The layer panel on its own: the handlers App gives LayerManager, each
\* with any identifier and the opacity with any number
PanelNext(max) ==
  \/ /\ CanIssue(1, max)
     /\ \E name \in LayerNames, type \in {"surface", "length"} :
          handleAddLayer(name, type, DefaultColor)
  \/ \E id \in 1..max, ok \in BOOLEAN : handleDeleteLayer(id, ok)
  \/ \E id \in 1..max : handleToggleVisibility(id)
  \/ \E id \in 1..max, opacity \in Opacities : handleUpdateOpacity(id, opacity)
  \/ \E id \in LayerIds(layers) :
       CanActivate(FindLayer(layers, id)) /\ handleSetActiveLayer(id)
  \/ \E doc \in Docs : CanIssue(Made(doc), max) /\ handleKmlImport(doc)

PanelSpec == Init /\ [][PanelNext(MaxPanelIds)]_vars

\* The import, the selection and the deletions
ImportNext(max) ==
  \/ \E doc \in Docs : CanIssue(Made(doc), max) /\ handleKmlImport(doc)
  \/ \E id \in 1..max, ok \in BOOLEAN : handleDeleteLayer(id, ok)
  \/ \E id \in ShapeIds(shapes) : SelectShape(id)
  \/ Deselect
  \/ \E id \in ShapeIds(shapes) \cup {selectedShapeId}, ok \in BOOLEAN :
       handleDeleteShape(id, ok)

ImportSpec == Init /\ [][ImportNext(MaxImportIds)]_vars

\* The import of the documents that differ in one text, and the conversion
\* of what they hold
ParseNext(max) ==
  \/ \E doc \in TextDocs : CanIssue(Made(doc), max) /\ handleKmlImport(doc)
  \/ \E id \in ShapeIds(shapes) : SelectShape(id)
  \/ \E ok \in BOOLEAN :
       /\ ok => CanIssue(1, max)
       /\ CanAskConvert(selectedShapeId)
       /\ handleConvertShape(selectedShapeId, ok)

\* The conversion: the handlers of App with any layer and any shape
\* identifier, after imports
ConvertNext(max) ==
  \/ /\ CanIssue(1, max)
     /\ handleAddLayer("Sol", "length", DefaultColor)
  \/ \E id \in LayerIds(layers) : handleDeleteLayer(id, TRUE)
  \/ \E id \in LayerIds(layers) : handleSetActiveLayer(id)
  \/ \E doc \in ConvertDocs : CanIssue(Made(doc), max) /\ handleKmlImport(doc)
  \/ \E shapeId \in 1..max, ok \in BOOLEAN :
       /\ (CanConvert(shapeId) /\ ok) => CanIssue(1, max)
       /\ handleConvertShape(shapeId, ok)

ConvertSpec == Init /\ [][ConvertNext(MaxConvertIds)]_vars

\* The analysis beside imports, conversions and layer deletions
AnalysisNext(max) ==
  \/ \E doc \in ConvertDocs : CanIssue(Made(doc), max) /\ handleKmlImport(doc)
  \/ \E id \in ShapeIds(shapes) : SelectShape(id)
  \/ /\ CanIssue(1, max)
     /\ CanAskConvert(selectedShapeId)
     /\ handleConvertShape(selectedShapeId, TRUE)
  \/ \E id \in LayerIds(layers) : handleDeleteLayer(id, TRUE)
  \/ started < MaxRequests /\ CanAskAnalysis /\ handleRunAnalysis
  \/ \E request \in requests, outcome \in Outcomes :
       AnalysisReply(request, outcome)
  \/ CloseAnalysis

AnalysisSpec == Init /\ [][AnalysisNext(MaxAnalysisIds)]_vars

ParseSpec == Init /\ [][ParseNext(MaxParseIds)]_vars

----------------------------------------------------------------------------
(* Properties *)

Last(s) == s[Len(s)]

\* An element of sequence s is an element of sequence t
Among(x, t) == \E j \in 1..Len(t) : t[j] = x

\* The step is the handling of the event called name
Handles(name) == op'.name = name

\* C1: in every reachable state, the layerId of every shape is the id of a
\* layer of the project.
ShapesReferToLayers ==
  \A i \in 1..Len(shapes) : HasLayer(layers, shapes[i].layerId)

\* C2: when the deferred add appends a captured shape, the layerId of the
\* shape is the activeLayerId of that moment.
CapturedOnActiveLayer ==
  (op.name = "timer" /\ op.ok) =>
    FindShape(shapes, op.arg).layerId = activeLayerId

\* C3: a step that switches the active layer, adds a layer, or switches
\* between polygon and line capture while points are accumulated leaves the
\* accumulated sequence empty.
StartsAnotherCapture ==
  \/ Handles("setActiveLayer") /\ activeLayerId' # activeLayerId
  \/ Handles("addLayer")
  \/ toolMode # SELECT /\ toolMode' # SELECT /\ toolMode' # toolMode

SwitchCancelsCapture ==
  [][(points # <<>> /\ StartsAnotherCapture) => points' = <<>>]_vars

\* C4: a tryFinish with fewer than 3 points in polygon mode, or fewer than 2
\* in line mode, changes nothing: the points stay, nothing is emitted, no
\* shape is added.
TooFew(mode, pts) ==
  \/ mode = DRAW_POLYGON /\ Len(pts) < 3
  \/ mode = DRAW_LINE /\ Len(pts) < 2

ShortFinishIsNoOp ==
  [][(Handles("tryFinish") /\ TooFew(toolMode, points))
       => UNCHANGED progVars]_vars

ShortFinishHappened ==
  /\ op.name = "tryFinish" /\ ~op.ok
  /\ toolMode = DRAW_POLYGON
  /\ Len(points) = 2

\* C5: a tryFinish with at least 3 points in polygon mode, or at least 2 in
\* line mode, emits once the points clicked since the capture was last
\* reset (by a finish, by Escape, or by DrawingManager leaving the render),
\* in the order of the clicks and with no point added, and leaves the
\* accumulated sequence empty.
FinishEmitsTheClicks ==
  [][(Handles("tryFinish") /\ ~TooFew(toolMode, points)) =>
       /\ Len(timers') = Len(timers) + 1
       /\ SubSeq(timers', 1, Len(timers)) = timers
       /\ Last(timers').points = session
       /\ Last(timers').layerId = activeLayerId
       /\ points' = <<>>
       /\ UNCHANGED <<layers, shapes>>]_vars

FinishHappened ==
  /\ op.name = "tryFinish" /\ op.ok
  /\ timers # <<>>
  /\ Last(timers).points = Trace
  /\ points = <<>>

\* C6: Escape leaves the accumulated sequence empty and the layers, the
\* shapes and the pending adds as they were; and the points of a shape that
\* is added, or of an add that becomes pending, are never any but those of
\* the oldest pending add, or those accumulated at that moment.
EscapeDiscards ==
  [][/\ Handles("escape") =>
          /\ points' = <<>>
          /\ UNCHANGED <<layers, shapes, timers>>
     /\ \A i \in 1..Len(shapes') :
          Among(shapes'[i], shapes)
            \/ (timers # <<>> /\ shapes'[i].points = Head(timers).points)
     /\ \A i \in 1..Len(timers') :
          Among(timers'[i], timers) \/ timers'[i].points = points]_vars

EscapeHappened ==
  /\ op.name = "escape" /\ op.arg = 2
  /\ points = <<>>
  /\ timers # <<>>

\* C7: a click on the first vertex in polygon mode with at least 3 points
\* is a tryFinish; any other click on a vertex changes nothing.
FirstVertexFinishes ==
  [][Handles("markerClick") =>
       IF op'.arg = 1 /\ toolMode = DRAW_POLYGON /\ Len(points) >= 3
       THEN handleTryFinish /\ points' = <<>> /\ Len(timers') = Len(timers) + 1
       ELSE UNCHANGED progVars]_vars

FirstVertexClicked ==
  /\ op.name = "markerClick" /\ op.arg = 1 /\ op.ok
  /\ points = <<>>
  /\ timers # <<>>

\* C8: whenever the tool is a capture tool and the active layer exists, the
\* active layer is a measurement layer, of type surface for the polygon tool
\* and of type length for the line tool.
CaptureCompatible ==
  (toolMode # SELECT /\ HasLayer(layers, activeLayerId)) =>
    LET l == FindLayer(layers, activeLayerId)
    IN /\ l.category = "measurement"
       /\ toolMode = DRAW_POLYGON => l.type = "surface"
       /\ toolMode = DRAW_LINE => l.type = "length"

CaptureBesideImport ==
  /\ toolMode = DRAW_LINE
  /\ HasLayer(layers, activeLayerId)
  /\ \E i \in 1..Len(layers) : layers[i].category = "kml"
  /\ points # <<>>

\* C9: a deleteLayer(id) the user confirms leaves no layer with that id and no shape
\* with that layerId; every other layer and every other shape stays as it
\* was, nothing is added, and the total of every remaining layer is unchanged.
DeleteLayerCascades ==
  [][(Handles("deleteLayer") /\ op'.ok) =>
       LET id == op'.arg
       IN /\ ~HasLayer(layers', id)
          /\ \A i \in 1..Len(shapes') : shapes'[i].layerId # id
          /\ \A i \in 1..Len(layers) :
               layers[i].id # id => Among(layers[i], layers')
          /\ \A i \in 1..Len(shapes) :
               shapes[i].layerId # id => Among(shapes[i], shapes')
          /\ \A i \in 1..Len(layers') : Among(layers'[i], layers)
          /\ \A i \in 1..Len(shapes') : Among(shapes'[i], shapes)
          /\ Len(layers') = Len(layers) - 1
          /\ Len(shapes') = Len(shapes) - Len(ShapesOf(shapes, id))
          /\ \A lid \in LayerIds(layers') :
               layerTotal(layers', shapes', lid) = layerTotal(layers, shapes, lid)
     ]_vars

LayerDeletedBesideShape ==
  /\ op.name = "deleteLayer" /\ op.ok
  /\ layers # <<>>
  /\ \E i \in 1..Len(shapes) : HasLayer(layers, shapes[i].layerId)

\* C10: a deleteLayer(id) the user confirms sets the active layer to none when id
\* was the active layer, and leaves activeLayerId as it was otherwise.
DeleteLayerResetsActive ==
  [][(Handles("deleteLayer") /\ op'.ok) =>
       /\ activeLayerId = op'.arg => activeLayerId' = NULL
       /\ activeLayerId # op'.arg => activeLayerId' = activeLayerId]_vars

OtherLayerDeleted ==
  /\ op.name = "deleteLayer" /\ op.ok
  /\ activeLayerId # NULL
  /\ activeLayerId # op.arg
  /\ HasLayer(layers, activeLayerId)

\* C11: addLayer(name, type, color) appends one layer, with a new id, the
\* category measurement, the given name, type and color, visible, of opacity
\* 0.5 for a surface and 1.0 for a length; it becomes the active layer; the
\* layers there were and the shapes are unchanged.
AddLayerAppends ==
  [][Handles("addLayer") =>
       /\ Len(layers') = Len(layers) + 1
       /\ SubSeq(layers', 1, Len(layers)) = layers
       /\ Last(layers') =
            [id |-> op'.arg,
             name |-> op'.input[1],
             type |-> op'.input[2],
             color |-> op'.input[3],
             category |-> "measurement",
             isVisible |-> TRUE,
             opacity |-> IF op'.input[2] = "surface" THEN 5 ELSE 10]
       /\ op'.input[2] \in {"surface", "length"}
       /\ ~HasLayer(layers, op'.arg)
       /\ activeLayerId' = op'.arg
       /\ shapes' = shapes]_vars

LengthLayerAdded ==
  /\ op.name = "addLayer"
  /\ Last(layers).type = "length"
  /\ Last(layers).opacity = 10
  /\ activeLayerId = Last(layers).id
  /\ shapes # <<>>

\* C17: in every reachable state a total is held for the measurement layers
\* and for no other layer, and the total of a measurement layer is the sum
\* of measuredValue over the shapes of the project whose layerId is its id.
RECURSIVE SumAt(_, _)
SumAt(ss, I) ==
  IF I = {} THEN 0
  ELSE LET i == CHOOSE x \in I : TRUE
       IN ss[i].measuredValue + SumAt(ss, I \ {i})

TotalsAreCurrent ==
  /\ DOMAIN layerTotals =
       {layers[i].id : i \in {j \in 1..Len(layers) :
                                 layers[j].category # "kml"}}
  /\ \A lid \in DOMAIN layerTotals :
       layerTotals[lid] =
         SumAt(shapes, {i \in 1..Len(shapes) : shapes[i].layerId = lid})

TotalBesideImport ==
  /\ \E i \in 1..Len(layers) : layers[i].category = "kml"
  /\ \E lid \in DOMAIN layerTotals : layerTotals[lid] > 0
  /\ \E i \in 1..Len(shapes) : shapes[i].layerId \notin DOMAIN layerTotals

OnlyThatField ==
  [][(Handles("toggleVisibility") \/ Handles("updateOpacity")) =>
       /\ Len(layers') = Len(layers)
       /\ \A i \in 1..Len(layers) :
            layers'[i] =
              IF layers[i].id # op'.arg THEN layers[i]
              ELSE IF Handles("toggleVisibility")
              THEN [layers[i] EXCEPT !.isVisible = ~layers[i].isVisible]
              ELSE [layers[i] EXCEPT !.opacity = op'.input[1]]
       /\ UNCHANGED <<shapes, activeLayerId, selectedShapeId, toolMode,
                      points, timers, nextId, layerTotals>>]_vars

HiddenBesideOthers ==
  /\ op.name = "toggleVisibility"
  /\ HasLayer(layers, op.arg)
  /\ ~FindLayer(layers, op.arg).isVisible
  /\ \E i \in 1..Len(layers) : layers[i].id # op.arg /\ layers[i].isVisible
  /\ shapes # <<>>
  /\ activeLayerId # NULL

\* C14: addShape with a shape whose layerId is the id of no layer of the
\* project fails and leaves the shapes as they were.
AddShapeNeedsLayer ==
  [][(Handles("timer") /\ op'.ok /\ ~HasLayer(layers, Head(timers).layerId))
       => shapes' = shapes]_vars

\* C15: a confirmed deleteShape(id) removes the shape id and no other, keeps
\* the order of the others, clears the selection when the shape was the
\* selected one and keeps it otherwise, and changes neither the layers nor
\* the active layer.
DeleteShapeRemovesOne ==
  [][(Handles("deleteShape") /\ op'.ok) =>
       /\ \A i \in 1..Len(shapes') :
            shapes'[i].id # op'.arg /\ Among(shapes'[i], shapes)
       /\ \A i \in 1..Len(shapes) :
            shapes[i].id # op'.arg => Among(shapes[i], shapes')
       /\ Len(shapes') =
            Len(shapes) - Cardinality({i \in 1..Len(shapes) :
                                         shapes[i].id = op'.arg})
       /\ selectedShapeId' =
            IF selectedShapeId = op'.arg THEN NULL ELSE selectedShapeId
       /\ UNCHANGED <<layers, activeLayerId>>]_vars

OtherShapeDeleted ==
  /\ op.name = "deleteShape"
  /\ op.ok
  /\ selectedShapeId # NULL
  /\ HasShape(shapes, selectedShapeId)
  /\ ~HasShape(shapes, op.arg)
  /\ activeLayerId # NULL

\* C16: a confirmed deleteLayer with an id no layer has, and a confirmed
\* deleteShape with an id no shape has, complete and leave the layers and the
\* shapes as they were; the deleteLayer leaves the active layer too.
DeleteAbsentIsNoOp ==
  [][/\ (Handles("deleteLayer") /\ op'.ok /\ ~HasLayer(layers, op'.arg))
          => UNCHANGED <<layers, shapes, activeLayerId>>
     /\ (Handles("deleteShape") /\ op'.ok /\ ~HasShape(shapes, op'.arg))
          => UNCHANGED <<layers, shapes>>]_vars

AbsentLayerDeleted ==
  /\ op.name = "deleteLayer"
  /\ op.ok
  /\ op.arg >= nextId
  /\ Len(layers) > 1
  /\ shapes # <<>>
  /\ activeLayerId # NULL

\* C18: the add that follows a finished capture on layer L appends exactly
\* one shape of the kind of L, with the captured points and their measure;
\* the total of L grows by that measure and no other total changes.
FinishYieldsMeasuredShape ==
  [][(Handles("timer") /\ op'.ok) =>
       LET t == Head(timers)
           new == Last(shapes')
       IN /\ shapes' = Append(shapes, new)
          /\ new.layerId = t.layerId
          /\ new.points = t.points
          /\ new.type = IF t.layerType = "surface" THEN "polygon"
                        ELSE "polyline"
          /\ new.measuredValue =
               IF t.layerType = "surface"
               THEN turfArea(Append(t.points, t.points[1]))
               ELSE turfLength(t.points) * 1000
          /\ t.layerId \in DOMAIN layerTotals
          /\ t.layerId \in DOMAIN layerTotals'
          /\ layerTotals'[t.layerId] =
               layerTotals[t.layerId] + new.measuredValue
          /\ \A lid \in DOMAIN layerTotals' \ {t.layerId} :
               layerTotals'[lid] = layerTotals[lid]]_vars

\* A placemark of doc with a polygon or a line and at least one valid point
Usable(doc, i) ==
  /\ doc.nodes[i].tag = "Placemark"
  /\ doc.nodes[i].geom \in {"Polygon", "LineString"}
  /\ parseCoords(doc.nodes[i].coords) # <<>>

\* C19: the import of a document none of whose placemarks is usable (no
\* folder and no placemark, or folders without a usable placemark) fails and
\* leaves the layers, the shapes, the active layer and the selection as they
\* were.
ImportAllOrNothing ==
  [][Handles("kmlImport") =>
       \A doc \in Docs :
         (/\ doc.file = op'.input[1]
          /\ \A i \in 1..Len(doc.nodes) : ~Usable(doc, i))
         => /\ ~op'.ok
            /\ UNCHANGED <<layers, shapes, activeLayerId, selectedShapeId>>]_vars

EmptyFolderImportFailed ==
  /\ op.name = "kmlImport"
  /\ op.input[1] = DocUnusable.file
  /\ ~op.ok
  /\ shapes # <<>>
  /\ selectedShapeId # NULL
  /\ activeLayerId # NULL

\* C20: the import of a document with folders, nested ones included, adds
\* one imported layer for each folder, in document order, and one shape for
\* each usable placemark inside a folder, each owned by one of the new
\* layers.
FoldersBecomeLayers ==
  [][(Handles("kmlImport") /\ op'.ok) =>
       \A doc \in Docs :
         LET folders == Ascending({i \in 1..Len(doc.nodes) :
                                     doc.nodes[i].tag = "Folder"})
             usable == {i \in 1..Len(doc.nodes) :
                          Usable(doc, i) /\ doc.nodes[i].parent # 0}
         IN (doc.file = op'.input[1] /\ folders # <<>>)
            => /\ Len(layers') = Len(layers) + Len(folders)
               /\ \A k \in 1..Len(folders) :
                    /\ layers'[Len(layers) + k].category = "kml"
                    /\ doc.nodes[folders[k]].name # NoName
                         => layers'[Len(layers) + k].name =
                              doc.nodes[folders[k]].name
               /\ Len(shapes') = Len(shapes) + Cardinality(usable)
               /\ \A j \in Len(shapes) + 1..Len(shapes') :
                    \E k \in 1..Len(folders) :
                      shapes'[j].layerId = layers'[Len(layers) + k].id]_vars

\* C21: in every reachable state every shape whose layer is an imported
\* layer has measuredValue 0.
ImportedUnmeasured ==
  \A i \in 1..Len(shapes) :
    (\E j \in 1..Len(layers) :
       layers[j].id = shapes[i].layerId /\ layers[j].category = "kml")
    => shapes[i].measuredValue = 0

ImportedBesideMeasured ==
  /\ \E i \in 1..Len(shapes) :
       /\ IsKmlShape(layers, shapes[i])
       /\ shapes[i].type = "polygon"
       /\ Len(shapes[i].points) = 3
  /\ \E i \in 1..Len(shapes) : shapes[i].measuredValue > 0
  /\ Cardinality({j \in 1..Len(layers) : layers[j].category = "kml"}) = 1

\* A number with a finite value
Finite(x) == x \notin {NaN, Infinity}

\* C22: the points parsed from a <coordinates> text are the tuples that
\* yield two finite numbers, lng then lat, in their order; a placemark left
\* with no such tuple gives no shape.
CoordsKeepFiniteTuples ==
  [][(Handles("kmlImport") /\ op'.input[2] \in TextDocs) =>
       LET coords == op'.input[2].nodes[2].coords
           kept == SelectSeq(coords,
                             LAMBDA t : /\ Len(t) >= 2
                                        /\ Finite(parseFloat(t[1]))
                                        /\ Finite(parseFloat(t[2])))
       IN IF kept = <<>> THEN shapes' = shapes
          ELSE /\ Len(shapes') = Len(shapes) + 1
               /\ Last(shapes').points =
                    [i \in 1..Len(kept) |->
                       [lat |-> parseFloat(kept[i][2]),
                        lng |-> parseFloat(kept[i][1])]]]_vars

HexDigits ==
  {"0", "1", "2", "3", "4", "5", "6", "7", "8", "9",
   "a", "b", "c", "d", "e", "f", "A", "B", "C", "D", "E", "F"}

\* C24: the colour registered for a <color> text of 8 hex digits aabbggrr is
\* #rrggbb, and for any other text the gray #9ca3af.
ColorIsReorderedOrGray ==
  [][(Handles("kmlImport") /\ op'.ok /\ op'.input[2] \in TextDocs) =>
       LET c == op'.input[2].styles[1].polyColor
       IN Last(layers').color =
            IF Len(c) = 8 /\ \A i \in 1..8 : c[i] \in HexDigits
            THEN "#" \o LowerChar(c[7]) \o LowerChar(c[8])
                     \o LowerChar(c[5]) \o LowerChar(c[6])
                     \o LowerChar(c[3]) \o LowerChar(c[4])
            ELSE "#9ca3af"]_vars

\* C23: the successful import of a document without folder adds one
\* imported layer, named "Import " and the file name and coloured #9ca3af,
\* and one shape for each usable placemark, each owned by that layer.
FlatImportMakesOneLayer ==
  [][(Handles("kmlImport") /\ op'.ok) =>
       LET doc == op'.input[2]
           usable == {i \in 1..Len(doc.nodes) : Usable(doc, i)}
       IN (\A i \in 1..Len(doc.nodes) : doc.nodes[i].tag # "Folder")
          => /\ Len(layers') = Len(layers) + 1
             /\ SubSeq(layers', 1, Len(layers)) = layers
             /\ Last(layers').name = "Import " \o doc.file
             /\ Last(layers').color = "#9ca3af"
             /\ Last(layers').category = "kml"
             /\ Len(shapes') = Len(shapes) + Cardinality(usable)
             /\ \A j \in Len(shapes) + 1..Len(shapes') :
                  shapes'[j].layerId = Last(layers').id]_vars

FlatImportCommitted ==
  /\ op.name = "kmlImport"
  /\ op.ok
  /\ op.input[1] = DocFlat.file
  /\ Last(layers).name = "Import trace.kml"
  /\ Last(shapes).layerId = Last(layers).id
  /\ Len(layers) = 3

\* C25: a successful import appends imported layers of type mixed after
\* the layers of the project and shapes after its shapes; each new shape is
\* owned by a new layer and by no layer the project had; the active layer
\* and the selection stay.
ImportOnlyAdds ==
  [][(Handles("kmlImport") /\ op'.ok) =>
       /\ Len(layers') > Len(layers)
       /\ SubSeq(layers', 1, Len(layers)) = layers
       /\ \A k \in Len(layers) + 1..Len(layers') :
            /\ layers'[k].category = "kml"
            /\ layers'[k].type = "mixed"
            /\ ~HasLayer(layers, layers'[k].id)
       /\ Len(shapes') > Len(shapes)
       /\ SubSeq(shapes', 1, Len(shapes)) = shapes
       /\ \A j \in Len(shapes) + 1..Len(shapes') :
            /\ ~HasLayer(layers, shapes'[j].layerId)
            /\ \E k \in Len(layers) + 1..Len(layers') :
                 layers'[k].id = shapes'[j].layerId
            /\ ~HasShape(shapes, shapes'[j].id)
       /\ UNCHANGED <<activeLayerId, selectedShapeId>>]_vars

ImportedBesideSelection ==
  /\ op.name = "kmlImport"
  /\ op.ok
  /\ selectedShapeId # NULL
  /\ HasShape(shapes, selectedShapeId)
  /\ activeLayerId # NULL
  /\ Len(shapes) > 1

\* The step is a confirmed conversion of the shape op'.arg onto the active
\* layer, a measurement layer
Converts ==
  /\ Handles("convertShape")
  /\ op'.ok
  /\ \E i \in 1..Len(shapes) : shapes[i].id = op'.arg
  /\ \E j \in 1..Len(layers) :
       layers[j].id = activeLayerId /\ layers[j].category = "measurement"

\* C26: a convert whose shape id matches no shape, or whose active layer does
\* not exist or is no measurement layer, changes neither the layers, nor
\* the shapes, nor the active layer, nor the selection.
ConvertNeedsShapeAndTarget ==
  [][(Handles("convertShape") /\
        \/ ~HasShape(shapes, op'.arg)
        \/ ~HasLayer(layers, activeLayerId)
        \/ FindLayer(layers, activeLayerId).category # "measurement")
       => UNCHANGED <<layers, shapes, activeLayerId, selectedShapeId>>]_vars

ConvertOntoImportedRefused ==
  /\ op.name = "convertShape"
  /\ op.ok
  /\ HasShape(shapes, op.arg)
  /\ HasLayer(layers, activeLayerId)
  /\ FindLayer(layers, activeLayerId).category = "kml"
  /\ \E j \in 1..Len(layers) : layers[j].category = "measurement"

\* C27: the shape a confirmed convert makes is a polygon when the target
\* layer is a surface layer and a polyline when it is a length layer, also
\* when the shape converted was itself made by a convert.
ConvertCoercesKind ==
  [][Converts =>
       Last(shapes').type =
         IF FindLayer(layers, activeLayerId).type = "surface" THEN "polygon"
         ELSE IF FindLayer(layers, activeLayerId).type = "length"
         THEN "polyline"
         ELSE "none"]_vars

\* The step converted shape 5 into shape 6. Shape 5 was made by a convert
\* too: an import would have made it with layer 4 for owner, and layer 4
\* would still be there.
ConvertedTwice ==
  /\ op.name = "convertShape"
  /\ op.input = <<TRUE>>
  /\ op.arg = 5
  /\ nextId = 7
  /\ LayerIds(layers) = {1, 2, 3}
  /\ Len(shapes) = 1
  /\ Last(shapes).id = 6
  /\ Last(shapes).type = "polygon"
  /\ Len(Last(shapes).points) = 2

\* C28: a confirmed convert removes the shape, appends one shape with an
\* identifier the project did not hold, the same points and the target
\* layer for owner; the other shapes keep their order and the layers stay.
ConvertMovesShape ==
  [][Converts =>
       LET old == FindShape(shapes, op'.arg)
           new == Last(shapes')
           others == {i \in 1..Len(shapes) : shapes[i].id # op'.arg}
       IN /\ Len(shapes') = Len(shapes)
          /\ ~HasShape(shapes', op'.arg)
          /\ ~HasShape(shapes, new.id)
          /\ ~HasLayer(layers, new.id)
          /\ new.points = old.points
          /\ new.layerId = activeLayerId
          /\ \A i \in others : Among(shapes[i], shapes')
          /\ \A i \in others, j \in others :
               i < j => \E a \in 1..Len(shapes'), b \in 1..Len(shapes') :
                          a < b /\ shapes'[a] = shapes[i] /\ shapes'[b] = shapes[j]
          /\ layers' = layers]_vars

ConvertedBesideOthers ==
  /\ op.name = "convertShape"
  /\ op.input = <<TRUE>>
  /\ Len(shapes) = 2
  /\ ~HasShape(shapes, op.arg)
  /\ Last(shapes).id = nextId - 1
  /\ Len(Last(shapes).points) = 3
  /\ ~IsKmlShape(layers, Last(shapes))
  /\ IsKmlShape(layers, shapes[1])

\* C29: a confirmed convert onto a surface layer of a shape of fewer than 3
\* points, or onto a length layer of a shape of fewer than 2 points, removes
\* the shape and appends its copy under the target layer with measuredValue
\* 0.
ConvertShortGivesZero ==
  [][Converts =>
       LET n == Len(FindShape(shapes, op'.arg).points)
           t == FindLayer(layers, activeLayerId).type
       IN ((t = "surface" /\ n < 3) \/ (t = "length" /\ n < 2))
          => /\ ~HasShape(shapes', op'.arg)
             /\ Len(shapes') = Len(shapes)
             /\ Len(Last(shapes').points) = n
             /\ Last(shapes').layerId = activeLayerId
             /\ Last(shapes').measuredValue = 0]_vars

ShortShapeConverted ==
  /\ op.name = "convertShape"
  /\ op.input = <<TRUE>>
  /\ shapes # <<>>
  /\ ~HasShape(shapes, op.arg)
  /\ Last(shapes).id = nextId - 1
  /\ Len(Last(shapes).points) = 1
  /\ Last(shapes).measuredValue = 0
  /\ Last(shapes).layerId = activeLayerId
  /\ HasLayer(layers, activeLayerId)
  /\ FindLayer(layers, activeLayerId).type = "length"

\* C30: in every reachable state a polygon holds at least 3 points, none of
\* them a closing copy of the first, and a polyline at least 2.
ShapesAreWellFormed ==
  \A i \in 1..Len(shapes) :
    IF shapes[i].type = "polygon"
    THEN /\ Len(shapes[i].points) >= 3
         /\ Last(shapes[i].points) # shapes[i].points[1]
    ELSE Len(shapes[i].points) >= 2

\* C31: in every reachable state a measurement layer is of the surface or of
\* the length kind and an imported layer of the mixed kind, and no step
\* changes the category or the kind of a layer that stays in the project.
LayerTyping ==
  \A i \in 1..Len(layers) :
    /\ layers[i].category \in {"measurement", "kml"}
    /\ layers[i].category = "measurement"
         => layers[i].type \in {"surface", "length"}
    /\ layers[i].category = "kml" => layers[i].type = "mixed"

LayersKeepTheirKind ==
  /\ []LayerTyping
  /\ [][\A i \in 1..Len(layers), j \in 1..Len(layers') :
          layers'[j].id = layers[i].id
            => /\ layers'[j].category = layers[i].category
               /\ layers'[j].type = layers[i].type]_vars

ImportedLayerChanged ==
  /\ op.name \in {"toggleVisibility", "updateOpacity"}
  /\ HasLayer(layers, op.arg)
  /\ FindLayer(layers, op.arg).category = "kml"
  /\ \E i \in 1..Len(layers) : layers[i].category = "measurement"

\* C32: in every reachable state the measuredValue of each shape is a finite
\* number that is not negative.
MeasuredValuesAreFinite ==
  \A i \in 1..Len(shapes) :
    /\ Finite(shapes[i].measuredValue)
    /\ shapes[i].measuredValue >= 0

\* The indices of the measurement layers, in the order of the project
MeasurementAt == {i \in 1..Len(layers) : layers[i].category = "measurement"}

Owned(i) == {j \in 1..Len(shapes) : shapes[j].layerId = layers[i].id}

\* C33: the report a call of handleRunAnalysis hands over has one entry for
\* each measurement layer of the project and none for an imported layer, the
\* entry of a layer holding the count and the sum of the measuredValue of the
\* shapes that layer owns; and neither the call, nor a reply, nor the closing
\* of the dialog changes layers, shapes, activeLayerId or selectedShapeId.
ReportCoversMeasurementLayers ==
  [][/\ Handles("runAnalysis") =>
          \E request \in requests' \ requests :
            /\ requests' = requests \cup {request}
            /\ Len(request.report) = Cardinality(MeasurementAt)
            /\ \A i \in MeasurementAt :
                 LET entry ==
                       request.report[Cardinality({k \in MeasurementAt :
                                                     k <= i})]
                 IN /\ entry.layerName = layers[i].name
                    /\ entry.itemCount = Cardinality(Owned(i))
                    /\ entry.totalValue = ToFixed2(SumAt(shapes, Owned(i)))
     /\ op'.name \in {"runAnalysis", "analysisReply", "closeAnalysis"}
          => UNCHANGED <<layers, shapes, activeLayerId, selectedShapeId>>]_vars

MeasuredLayerReported ==
  /\ op.name = "analysisReply"
  /\ selectedShapeId # NULL
  /\ \E i \in 1..Len(layers) : layers[i].category = "kml"
  /\ \E request \in requests :
       /\ Len(request.report) = 1
       /\ request.report[1].itemCount = 1
       /\ request.report[1].totalValue # "0.00"

\* The texts analyzeMeasurements can resolve to for the request numbered n
RepliesTo(n) == {AnalysisText([n |-> n], outcome) : outcome \in Outcomes}

\* C38: in every reachable state, no request is pending while the loading
\* flag is false, and once every reply has arrived the text shown is a reply
\* to the request started last.
LastRequestWins ==
  /\ ~isAnalyzing => requests = {}
  /\ (requests = {} /\ started > 0) => analysisResult \in RepliesTo(started)

\* C34: in every reachable state a shape owned by a surface layer is a
\* polygon and a shape owned by a length layer is a polyline.
ShapeTypeMatchesLayerKind ==
  \A i \in 1..Len(shapes), j \in 1..Len(layers) :
    layers[j].id = shapes[i].layerId
      => /\ layers[j].type = "surface" => shapes[i].type = "polygon"
         /\ layers[j].type = "length" => shapes[i].type = "polyline"

LineAddedAfterSwitch ==
  /\ op.name = "timer"
  /\ op.ok
  /\ shapes # <<>>
  /\ Last(shapes).type = "polyline"
  /\ HasLayer(layers, Last(shapes).layerId)
  /\ HasLayer(layers, activeLayerId)
  /\ Last(shapes).layerId # activeLayerId
  /\ FindLayer(layers, activeLayerId).type = "surface"

\* C35: in every reachable state selectedShapeId is none or the id of a shape
\* of the project.
SelectionRefersToShape ==
  selectedShapeId = NULL \/ HasShape(shapes, selectedShapeId)

\* C36: in every reachable state activeLayerId is none or the id of a layer
\* of the project whose category is measurement.
ActiveIsMeasurementLayer ==
  \/ activeLayerId = NULL
  \/ \E i \in 1..Len(layers) :
       /\ layers[i].id = activeLayerId
       /\ layers[i].category = "measurement"

ActiveDeletedBesideImported ==
  /\ op.name = "deleteLayer"
  /\ op.ok
  /\ op.arg = 1
  /\ ~HasLayer(layers, 1)
  /\ activeLayerId = NULL
  /\ \E i \in 1..Len(layers) : layers[i].category = "kml"

\* C37: in every reachable state with a drawing tool mode selectedShapeId is
\* none; a step makes a shape the selected one only while the tool mode is
\* SELECT and stays SELECT; and addLayer, a setActiveLayer on a layer of the
\* project and the two drawing buttons leave a drawing mode and no selection.
SelectionExcludesCapture ==
  /\ [](toolMode # SELECT => selectedShapeId = NULL)
  /\ [][/\ (selectedShapeId' # NULL /\ selectedShapeId' # selectedShapeId)
             => (toolMode = SELECT /\ toolMode' = SELECT)
        /\ (\/ op'.name \in {"addLayer", "toolPolygon", "toolLine"}
            \/ Handles("setActiveLayer") /\ HasLayer(layers, op'.arg))
             => (toolMode' # SELECT /\ selectedShapeId' = NULL)]_vars

SwitchClearedSelection ==
  /\ op.name = "setActiveLayer"
  /\ op.input # <<NULL>>
  /\ toolMode # SELECT
  /\ selectedShapeId = NULL
  /\ HasShape(shapes, op.input[1])

====
